---------------------------- MODULE Spec2Model ----------------------------
(***************************************************************************)
(* Model of src/pdp.py: a multi-threaded crawler.  The main thread loads   *)
(* the pending categories from the category_urls collection, submits one   *)
(* process_category job per category to a ThreadPoolExecutor, gathers the  *)
(* futures and prints a summary.  Every job walks the pages of its         *)
(* category against the shared request_counter, inserts the quotes it      *)
(* collected into quotes_data and sets the category's status to done.      *)
(***************************************************************************)
EXTENDS Integers, Sequences, FiniteSets

\* ------------------------------------------------------------------ bounds
NumCats == 2        \* category documents in category_urls
MaxPages == 2       \* longest finite pagination chain of a category
MaxQuotes == 1      \* quotes on one page
MaxLimit == 2       \* largest request_limit typed in
MaxWorkers == 2     \* largest max_workers typed in

VARIABLES
    request_limit,      \* int(input(...)), line 31
    max_workers,        \* int(input(...)), line 32
    site,               \* the web site: what each category's pages answer
    status,             \* category_urls: status field of every category
    quotes_collection,  \* quotes_data: the stored records, in insertion order
    pending_categories, \* the list loaded at line 41
    request_counter,    \* request_counter['count']
    mainpc,             \* position of the main thread
    pc,                 \* position of each category's job
    page_number,        \* local of process_category
    quotes_data,        \* local of process_category
    count_read,         \* the value read by `request_counter['count'] += 1`
    fetched,            \* history: page numbers each job passed to requests.get
    outcome,            \* history: why each job's while loop ended
    pending_at_start,   \* history: the categories pending before the run
    reported            \* the count printed at line 131 (-1: nothing printed)

vars == <<request_limit, max_workers, site, status, quotes_collection,
          pending_categories, request_counter, mainpc, pc, page_number,
          quotes_data, count_read, fetched, outcome, pending_at_start, reported>>

\* ------------------------------------------------------------ the web site
\* A category's pages: pages 1..len-1 answer 200 and link to a next page;
\* page len ends the chain in the way `end` says; with end = "more" every
\* page answers 200 and has a next link.  Every page carries nq quotes.
PageEnds == {"last", "bad", "err", "mal", "more"}

Profiles == {p \in [len : 1..MaxPages, end : PageEnds, nq : 0..MaxQuotes] :
                p.end = "more" => p.len = 1}

Cats == DOMAIN status

Min(a, b) == IF a < b THEN a ELSE b

\* requests.get(paginated_url, timeout=10): "200", "non200", or "exception".
Response(c, p) ==
    IF site[c].end = "more" \/ p < site[c].len THEN "200"
    ELSE IF p > site[c].len THEN "non200"
    ELSE CASE site[c].end = "bad" -> "non200"
           [] site[c].end = "err" -> "exception"
           [] OTHER -> "200"

\* tree.xpath('//li[@class="next"]/a/@href') is not empty.
\* (HasNextMutant: the faulty variant that always finds a next link.)
HasNextMutant(c, p) == TRUE
\* (HasNextQuotesMutant: the faulty variant that stops at a page without quotes.)
HasNextQuotesMutant(c, p) ==
    (site[c].end = "more" \/ p < site[c].len) /\ site[c].nq > 0
HasNext(c, p) == site[c].end = "more" \/ p < site[c].len

\* A quote of the page lacks its text or author: [0] raises IndexError.
Malformed(c, p) == site[c].end = "mal" /\ p = site[c].len

\* The record built for quote i of page p: the paginated_url stands for
\* (category, page); the quote's text, author and tags for its index.
Record(c, p, i) == <<c, p, i>>

\* The records the for loop appends before it ends or raises: on a malformed
\* page the last quote is the broken one.
PageQuotes(c, p) ==
    LET n == IF Malformed(c, p) /\ site[c].nq > 0 THEN site[c].nq - 1
             ELSE site[c].nq
    IN  [i \in 1..n |-> Record(c, p, i)]

\* ------------------------------------------------------------------ store
\* category_collection.find({"status": "pending"}): the pending categories
\* in natural order.
\* (PendingQueryMutant: the faulty variant without the status filter.)
PendingQueryMutant == [i \in 1..Cardinality(Cats) |-> i]
PendingQuery ==
    SelectSeq([i \in 1..Cardinality(Cats) |-> i], LAMBDA c : status[c] = "pending")

\* cursor.limit(n): the first n documents; limit(0) is no limit.
\* (LimitMutant: the faulty variant without the limit.)
LimitMutant(s, n) == s
Limit(s, n) == IF n = 0 THEN s ELSE SubSeq(s, 1, Min(n, Len(s)))

Loaded == {pending_categories[i] : i \in 1..Len(pending_categories)}

\* A record an earlier run left in quotes_data for a category it marked done.
OldRecord(c) == Record(c, 0, 1)

OldRecords(st) ==
    SelectSeq([c \in 1..Len(st) |-> OldRecord(c)], LAMBDA r : st[r[1]] = "done")

\* ------------------------------------------------------------------- Init
InitWith(limit, workers, st, web) ==
    /\ request_limit = limit
    /\ max_workers = workers
    /\ status = st
    /\ site = web
    /\ quotes_collection = OldRecords(st)
    /\ pending_categories = <<>>
    /\ request_counter = 0
    /\ mainpc = "load"
    /\ pc = [c \in DOMAIN st |-> "idle"]
    /\ page_number = [c \in DOMAIN st |-> 0]
    /\ quotes_data = [c \in DOMAIN st |-> <<>>]
    /\ count_read = [c \in DOMAIN st |-> 0]
    /\ fetched = [c \in DOMAIN st |-> <<>>]
    /\ outcome = [c \in DOMAIN st |-> "none"]
    /\ pending_at_start = {c \in DOMAIN st : st[c] = "pending"}
    /\ reported = -1

Init ==
    \E limit \in 0..MaxLimit, workers \in 1..MaxWorkers,
       st \in [1..NumCats -> {"pending", "done"}],
       web \in [1..NumCats -> Profiles] :
        InitWith(limit, workers, st, web)

\* ------------------------------------------------------------ main thread
\* Lines 41-44: load the pending categories; exit when there are none.
LoadPending ==
    /\ mainpc = "load"
    /\ pending_categories' = Limit(PendingQuery, request_limit)
    /\ mainpc' = IF pending_categories' = <<>> THEN "exited" ELSE "submit"
    /\ UNCHANGED <<request_limit, max_workers, site, status, quotes_collection,
                   request_counter, pc, page_number, quotes_data, count_read,
                   fetched, outcome, pending_at_start, reported>>

\* Line 125: one future per loaded category, queued in list order.
SubmitAll ==
    /\ mainpc = "submit"
    /\ pc' = [c \in Cats |-> IF c \in Loaded THEN "queued" ELSE pc[c]]
    /\ mainpc' = "gather"
    /\ UNCHANGED <<request_limit, max_workers, site, status, quotes_collection,
                   pending_categories, request_counter, page_number, quotes_data,
                   count_read, fetched, outcome, pending_at_start, reported>>

Finished(c) == pc[c] \in {"done", "raised"}

\* Lines 126-128: every future completed and none raised; the with block ends.
\* (GatherAllMutant: the faulty variant that waits for one future only.)
GatherAllMutant ==
    /\ mainpc = "gather"
    /\ \E c \in Loaded : pc[c] = "done"
    /\ mainpc' = "summary"
    /\ UNCHANGED <<request_limit, max_workers, site, status, quotes_collection,
                   pending_categories, request_counter, pc, page_number,
                   quotes_data, count_read, fetched, outcome, pending_at_start,
                   reported>>
GatherAll ==
    /\ mainpc = "gather"
    /\ \A c \in Loaded : pc[c] = "done"
    /\ mainpc' = "summary"
    /\ UNCHANGED <<request_limit, max_workers, site, status, quotes_collection,
                   pending_categories, request_counter, pc, page_number,
                   quotes_data, count_read, fetched, outcome, pending_at_start,
                   reported>>

\* Lines 129-132: print the summary.
Summary ==
    /\ mainpc = "summary"
    /\ reported' = request_counter
    /\ mainpc' = "reported"
    /\ UNCHANGED <<request_limit, max_workers, site, status, quotes_collection,
                   pending_categories, request_counter, pc, page_number,
                   quotes_data, count_read, fetched, outcome, pending_at_start>>

\* ------------------------------------------------------------ worker pool
Running == {c \in Cats : pc[c] \notin {"idle", "queued", "done", "raised"}}

\* The executor's work queue is FIFO: the next job is the first queued one.
NextQueued(c) ==
    \E i \in 1..Len(pending_categories) :
        /\ pending_categories[i] = c
        /\ pc[c] = "queued"
        /\ \A j \in 1..(i - 1) : pc[pending_categories[j]] # "queued"

\* A free worker thread takes the job; lines 75-77.
Start(c) ==
    /\ NextQueued(c)
    /\ Cardinality(Running) < max_workers
    /\ pc' = [pc EXCEPT ![c] = "check"]
    /\ page_number' = [page_number EXCEPT ![c] = 1]
    /\ quotes_data' = [quotes_data EXCEPT ![c] = <<>>]
    /\ UNCHANGED <<request_limit, max_workers, site, status, quotes_collection,
                   pending_categories, request_counter, mainpc, count_read,
                   fetched, outcome, pending_at_start, reported>>

\* -------------------------------------------------------- process_category
\* Line 79: the while condition.
\* (UnderLimitMutant: the faulty variant that compares with <=.)
UnderLimitMutant == request_counter <= request_limit
UnderLimit == request_counter < request_limit

\* (CheckWaitMutant: the faulty variant that waits for room under the limit.)
CheckWaitMutant(c) ==
    /\ pc[c] = "check"
    /\ UnderLimit
    /\ pc' = [pc EXCEPT ![c] = "get"]
    /\ UNCHANGED <<request_limit, max_workers, site, status, quotes_collection,
                   pending_categories, request_counter, mainpc, page_number,
                   quotes_data, count_read, fetched, outcome, pending_at_start,
                   reported>>
Check(c) ==
    /\ pc[c] = "check"
    /\ IF UnderLimit
       THEN /\ pc' = [pc EXCEPT ![c] = "get"]
            /\ UNCHANGED outcome
       ELSE /\ pc' = [pc EXCEPT ![c] = "insert"]
            /\ outcome' = [outcome EXCEPT ![c] = "BudgetExhausted"]
    /\ UNCHANGED <<request_limit, max_workers, site, status, quotes_collection,
                   pending_categories, request_counter, mainpc, page_number,
                   quotes_data, count_read, fetched, pending_at_start, reported>>

\* Where a job goes when its fetch fails: break (line 86) or except (111-113).
\* (AfterFetchErrorMutant: the faulty variant that returns instead of breaking.)
AfterFetchErrorMutant == "done"
\* (AfterFetchErrorRetry: the faulty variant that continues the loop.)
AfterFetchErrorRetry == "check"
AfterFetchError == "insert"

\* Lines 84-86: the GET of the current page.
Get(c) ==
    /\ pc[c] = "get"
    /\ fetched' = [fetched EXCEPT ![c] = Append(@, page_number[c])]
    /\ IF Response(c, page_number[c]) = "200"
       THEN /\ pc' = [pc EXCEPT ![c] = "read"]
            /\ UNCHANGED outcome
       ELSE /\ pc' = [pc EXCEPT ![c] = AfterFetchError]
            /\ outcome' = [outcome EXCEPT ![c] = "FetchError"]
    /\ UNCHANGED <<request_limit, max_workers, site, status, quotes_collection,
                   pending_categories, request_counter, mainpc, page_number,
                   quotes_data, count_read, pending_at_start, reported>>

\* Line 88, first half: read request_counter['count'].
IncrRead(c) ==
    /\ pc[c] = "read"
    /\ count_read' = [count_read EXCEPT ![c] = request_counter]
    /\ pc' = [pc EXCEPT ![c] = "write"]
    /\ UNCHANGED <<request_limit, max_workers, site, status, quotes_collection,
                   pending_categories, request_counter, mainpc, page_number,
                   quotes_data, fetched, outcome, pending_at_start, reported>>

\* Line 88, second half: store the value read plus one.
IncrWrite(c) ==
    /\ pc[c] = "write"
    /\ request_counter' = count_read[c] + 1
    /\ pc' = [pc EXCEPT ![c] = "parse"]
    /\ UNCHANGED <<request_limit, max_workers, site, status, quotes_collection,
                   pending_categories, mainpc, page_number, quotes_data,
                   count_read, fetched, outcome, pending_at_start, reported>>

\* Where a job goes when parsing raises: the except of lines 111-113 breaks.
\* (AfterParseErrorMutant: the faulty variant whose except does not catch it.)
AfterParseErrorMutant == "raised"
AfterParseError == "insert"

\* Lines 90-113: parse the page, collect its quotes, look for the next link.
Parse(c) ==
    /\ pc[c] = "parse"
    /\ quotes_data' = [quotes_data EXCEPT ![c] = @ \o PageQuotes(c, page_number[c])]
    /\ IF Malformed(c, page_number[c])
       THEN /\ pc' = [pc EXCEPT ![c] = AfterParseError]
            /\ outcome' = [outcome EXCEPT ![c] = "ParseError"]
            /\ UNCHANGED page_number
       ELSE IF ~HasNext(c, page_number[c])
       THEN /\ pc' = [pc EXCEPT ![c] = "insert"]
            /\ outcome' = [outcome EXCEPT ![c] = "Exhausted"]
            /\ UNCHANGED page_number
       ELSE /\ pc' = [pc EXCEPT ![c] = "check"]
            /\ page_number' = [page_number EXCEPT ![c] = @ + 1]
            /\ UNCHANGED outcome
    /\ UNCHANGED <<request_limit, max_workers, site, status, quotes_collection,
                   pending_categories, request_counter, mainpc, count_read,
                   fetched, pending_at_start, reported>>

\* Lines 115-116: one insert_many of the job's records, skipped when empty.
\* (InsertFirstMutant: the faulty variant that inserts the first record only.)
InsertFirstMutant(c) ==
    /\ pc[c] = "insert"
    /\ quotes_collection' = quotes_collection \o SubSeq(quotes_data[c], 1, Min(1, Len(quotes_data[c])))
    /\ pc' = [pc EXCEPT ![c] = "update"]
    /\ UNCHANGED <<request_limit, max_workers, site, status, pending_categories,
                   request_counter, mainpc, page_number, quotes_data, count_read,
                   fetched, outcome, pending_at_start, reported>>
Insert(c) ==
    /\ pc[c] = "insert"
    /\ quotes_collection' = quotes_collection \o quotes_data[c]
    /\ pc' = [pc EXCEPT ![c] = "update"]
    /\ UNCHANGED <<request_limit, max_workers, site, status, pending_categories,
                   request_counter, mainpc, page_number, quotes_data, count_read,
                   fetched, outcome, pending_at_start, reported>>

\* Line 118: update_one sets the category's status.
\* (UpdateSkipMutant: the faulty variant that writes nothing;
\* UpdateManyMutant: the faulty variant whose filter matches every category.)
UpdateSkipMutant(c) ==
    /\ pc[c] = "update"
    /\ pc' = [pc EXCEPT ![c] = "done"]
    /\ UNCHANGED <<request_limit, max_workers, site, status, quotes_collection,
                   pending_categories, request_counter, mainpc, page_number,
                   quotes_data, count_read, fetched, outcome, pending_at_start,
                   reported>>
UpdateManyMutant(c) ==
    /\ pc[c] = "update"
    /\ status' = [d \in Cats |-> "done"]
    /\ pc' = [pc EXCEPT ![c] = "done"]
    /\ UNCHANGED <<request_limit, max_workers, site, quotes_collection,
                   pending_categories, request_counter, mainpc, page_number,
                   quotes_data, count_read, fetched, outcome, pending_at_start,
                   reported>>
Update(c) ==
    /\ pc[c] = "update"
    /\ status' = [status EXCEPT ![c] = "done"]
    /\ pc' = [pc EXCEPT ![c] = "done"]
    /\ UNCHANGED <<request_limit, max_workers, site, quotes_collection,
                   pending_categories, request_counter, mainpc, page_number,
                   quotes_data, count_read, fetched, outcome, pending_at_start,
                   reported>>

Next ==
    \/ LoadPending
    \/ SubmitAll
    \/ GatherAll
    \/ Summary
    \/ \E c \in Cats : Start(c)
    \/ \E c \in Cats : Check(c)
    \/ \E c \in Cats : Get(c)
    \/ \E c \in Cats : IncrRead(c)
    \/ \E c \in Cats : IncrWrite(c)
    \/ \E c \in Cats : Parse(c)
    \/ \E c \in Cats : Insert(c)
    \/ \E c \in Cats : Update(c)

Spec == Init /\ [][Next]_vars

\* The run under a fair scheduler: a thread that can take a step is not
\* held back for ever (the main thread and the pool's workers are operating
\* system threads), and every requests.get returns (timeout=10).
FairSpec == Init /\ [][Next]_vars /\ WF_vars(Next)

\* --------------------------------------------------------- Store failures
\* The elements of s at the indexes in S, in order.
KeepIdx(s, S) ==
    LET idx == SelectSeq([i \in 1..Len(s) |-> i], LAMBDA i : i \in S)
    IN  [k \in 1..Len(idx) |-> s[idx[k]]]

\* Line 116 raises (pymongo BulkWriteError or a connection error): with
\* ordered=False any documents but not all of them were written.  The
\* exception leaves process_category; line 118 is not reached.
InsertFails(c) ==
    /\ pc[c] = "insert"
    /\ quotes_data[c] # <<>>
    /\ \E S \in SUBSET (1..Len(quotes_data[c])) :
        /\ S # 1..Len(quotes_data[c])
        /\ quotes_collection' = quotes_collection \o KeepIdx(quotes_data[c], S)
    /\ pc' = [pc EXCEPT ![c] = "raised"]
    /\ UNCHANGED <<request_limit, max_workers, site, status, pending_categories,
                   request_counter, mainpc, page_number, quotes_data, count_read,
                   fetched, outcome, pending_at_start, reported>>

\* Line 118 raises: the status is not written.
UpdateFails(c) ==
    /\ pc[c] = "update"
    /\ pc' = [pc EXCEPT ![c] = "raised"]
    /\ UNCHANGED <<request_limit, max_workers, site, status, quotes_collection,
                   pending_categories, request_counter, mainpc, page_number,
                   quotes_data, count_read, fetched, outcome, pending_at_start,
                   reported>>

\* Line 127: future.result() re-raises the exception of a completed job.
GatherRaise ==
    /\ mainpc = "gather"
    /\ \E c \in Loaded : pc[c] = "raised"
    /\ mainpc' = "unwind"
    /\ UNCHANGED <<request_limit, max_workers, site, status, quotes_collection,
                   pending_categories, request_counter, pc, page_number,
                   quotes_data, count_read, fetched, outcome, pending_at_start,
                   reported>>

\* Line 124: the exception leaves the with block, whose exit is
\* executor.shutdown(wait=True): the submitted jobs all run to their end;
\* then the exception ends the script, lines 129-166 are not run.
\* (UnwindMutant: the faulty variant that does not wait, shutdown(wait=False).)
UnwindMutant ==
    /\ mainpc = "unwind"
    /\ mainpc' = "crashed"
    /\ UNCHANGED <<request_limit, max_workers, site, status, quotes_collection,
                   pending_categories, request_counter, pc, page_number,
                   quotes_data, count_read, fetched, outcome, pending_at_start,
                   reported>>
Unwind ==
    /\ mainpc = "unwind"
    /\ \A c \in Loaded : Finished(c)
    /\ mainpc' = "crashed"
    /\ UNCHANGED <<request_limit, max_workers, site, status, quotes_collection,
                   pending_categories, request_counter, pc, page_number,
                   quotes_data, count_read, fetched, outcome, pending_at_start,
                   reported>>

FaultNext ==
    \/ Next
    \/ \E c \in Cats : InsertFails(c)
    \/ \E c \in Cats : UpdateFails(c)
    \/ GatherRaise
    \/ Unwind

\* The run when the Store's writes may fail.
FaultSpec == Init /\ [][FaultNext]_vars

\* ------------------------------------------------------------ one scenario
\* request_limit 5, max_workers 3, three pending categories of three pages.
ScenarioInit ==
    InitWith(5, 3, [c \in 1..3 |-> "pending"],
             [c \in 1..3 |-> [len |-> 3, end |-> "last", nq |-> 1]])

ScenarioSpec == ScenarioInit /\ [][Next]_vars

\* ------------------------------------------------------------- properties
RECURSIVE SumOver(_, _)
SumOver(f, S) ==
    IF S = {} THEN 0
    ELSE LET x == CHOOSE y \in S : TRUE IN f[x] + SumOver(f, S \ {x})

\* The number of GETs issued so far by all jobs.
Fetches == SumOver([c \in Cats |-> Len(fetched[c])], Cats)

\* The main thread has ended: nothing to do, summary printed, or exception.
RunEnded == mainpc \in {"exited", "reported", "crashed"}

\* The records of pages 1..n of category c, in page order.
RECURSIVE PagesQuotes(_, _)
PagesQuotes(c, n) ==
    IF n = 0 THEN <<>> ELSE PagesQuotes(c, n - 1) \o PageQuotes(c, n)

\* The records this run's job of category c wrote to quotes_data.
StoredBy(c) == SelectSeq(quotes_collection, LAMBDA r : r[1] = c /\ r[2] > 0)

C3_ScenarioExactlyFive ==
    mainpc = "reported" =>
        /\ Fetches = 5
        /\ \E c \in Cats : outcome[c] = "BudgetExhausted"
        /\ \A c \in Cats : status[c] = "done"

C5_SinglePageJob ==
    \A c \in Cats :
        (site[c].len = 1 /\ site[c].end = "last" /\ fetched[c] # <<>>) =>
            /\ fetched[c] = <<1>>
            /\ pc[c] \in {"update", "done"} => StoredBy(c) = PageQuotes(c, 1)
            /\ pc[c] \in {"read", "write", "parse", "insert"} => StoredBy(c) = <<>>
            /\ RunEnded => pc[c] = "done"

C5_Witness ==
    \E c \in Cats :
        /\ site[c].len = 1 /\ site[c].end = "last" /\ site[c].nq > 0
        /\ pc[c] = "done"
        /\ fetched[c] = <<1>>
        /\ StoredBy(c) = <<Record(c, 1, 1)>>
        /\ request_counter < request_limit

\* C6: a run started with no pending category issues no GET, starts no job,
\* writes neither collection, prints no summary and ends at the exit of
\* line 44.
C6_NothingPending ==
    pending_at_start = {} =>
        /\ Fetches = 0
        /\ \A c \in Cats : status[c] = "done" /\ pc[c] = "idle"
        /\ quotes_collection = OldRecords(status)
        /\ pending_categories = <<>>
        /\ mainpc \in {"load", "exited"}
        /\ reported = -1

C6_Witness == pending_at_start = {} /\ mainpc = "exited"

\* C7: a status is written only by the update of the category's own job,
\* which changes it from pending to done; a done status stays done; a job is
\* queued once, started once and once done stays done; the loaded list names
\* no category twice.
C7_StatusStep(c) ==
    /\ status[c] = "done" => status'[c] = "done"
    /\ status'[c] # status[c] =>
          /\ status[c] = "pending" /\ status'[c] = "done"
          /\ pc[c] = "update" /\ pc'[c] = "done"
    /\ pc'[c] = "queued" /\ pc[c] # "queued" => pc[c] = "idle"
    /\ pc'[c] = "check" /\ pc[c] \notin {"check", "parse"} => pc[c] = "queued"
    /\ pc[c] = "done" => pc'[c] = "done"
    /\ pc[c] # "idle" => pc'[c] # "idle"
    /\ Cardinality(Loaded') = Len(pending_categories')

\* C7: every step of the run keeps to these rules for every category.
C7_DoneOnce == [][\A c \in Cats : C7_StatusStep(c)]_vars

C7_Witness ==
    /\ max_workers > 1
    /\ Cardinality(Loaded) > 1
    /\ \A c \in Loaded : status[c] = "done" /\ c \in pending_at_start

\* C8: when the run has ended, every loaded job that did not itself raise in
\* a Store write has ended its walk with a terminal outcome, has written all
\* the records it collected and has its category done, whatever other jobs
\* raised.
C8_OtherJobsComplete ==
    RunEnded =>
        \A c \in Loaded :
            pc[c] # "raised" =>
                /\ pc[c] = "done"
                /\ outcome[c] # "none"
                /\ StoredBy(c) = quotes_data[c]
                /\ status[c] = "done"

C8_Witness ==
    /\ mainpc = "crashed"
    /\ max_workers = 1
    /\ Len(pending_categories) > 1
    /\ pc[pending_categories[1]] = "raised"
    /\ \E c \in Loaded : pc[c] = "done" /\ StoredBy(c) # <<>> /\ status[c] = "done"

\* C9: a job that raised in a Store write does not abort the run: the main
\* thread is never unwinding or ended by the exception, and an ended run has
\* printed its summary.
C9_RunNotAborted ==
    (\E c \in Loaded : pc[c] = "raised") =>
        /\ mainpc \in {"gather", "summary", "reported"}
        /\ RunEnded => reported >= 0

\* The GETs category c's job issues when the budget never stops it; -1 when
\* the chain of next links never ends.
Unlimited(c) == IF site[c].end = "more" THEN -1 ELSE site[c].len

Fetches200 ==
    SumOver([c \in Cats |->
                Cardinality({i \in 1..Len(fetched[c]) :
                                Response(c, fetched[c][i]) = "200"})], Cats)

\* C11: the count printed in the summary is the number of GETs the run
\* issued, failed ones included.
C11_ReportedIsFetches == reported >= 0 => reported = Fetches

\* C12: a job that evaluates the while condition with the count at or above
\* the limit leaves the loop at once: that step changes neither the counter
\* nor the job's GET log; from then on the job issues no GET, never returns
\* to the loop (so never writes the counter) and only moves on through its
\* insert and update.
C12_JobStep(c) ==
    /\ (pc[c] = "check" /\ request_counter >= request_limit /\ pc'[c] # "check") =>
          /\ pc'[c] = "insert"
          /\ outcome'[c] = "BudgetExhausted"
          /\ request_counter' = request_counter
          /\ fetched'[c] = fetched[c]
    /\ outcome[c] = "BudgetExhausted" =>
          /\ outcome'[c] = "BudgetExhausted"
          /\ fetched'[c] = fetched[c]
          /\ page_number'[c] = page_number[c]
          /\ pc[c] \in {"insert", "update", "done"}
          /\ pc'[c] \in {"insert", "update", "done"}
          /\ pc[c] = "update" => pc'[c] # "insert"

\* C12: every step of the run keeps to these rules for every job.
C12_StopsForGood == [][\A c \in Cats : C12_JobStep(c)]_vars

C12_Witness ==
    \E c \in Cats :
        /\ outcome[c] = "BudgetExhausted"
        /\ fetched[c] = <<1>>
        /\ page_number[c] = 2
        /\ pc[c] = "done"
        /\ status[c] = "done"
        /\ request_counter = request_limit

\* s starts with t.
IsPrefix(t, s) == Len(t) <= Len(s) /\ SubSeq(s, 1, Len(t)) = t

\* C13, the failing step: the step in which parsing page N of job c raises
\* moves that job to its insert with the records of pages 1..N-1 still held
\* (followed only by records of page N built before the broken quote) and
\* changes nothing of any other job, of the main thread or of the Store.
C13_FailStep(c) ==
    (pc[c] = "parse" /\ Malformed(c, page_number[c]) /\ pc'[c] # "parse") =>
        /\ pc'[c] = "insert"
        /\ outcome'[c] = "ParseError"
        /\ IsPrefix(PagesQuotes(c, page_number[c] - 1), quotes_data'[c])
        /\ \A d \in Cats \ {c} :
              /\ pc'[d] = pc[d]
              /\ quotes_data'[d] = quotes_data[d]
              /\ page_number'[d] = page_number[d]
              /\ fetched'[d] = fetched[d]
              /\ outcome'[d] = outcome[d]
        /\ UNCHANGED <<mainpc, status, quotes_collection, request_counter, fetched>>

\* C13, afterwards: a job stopped by a parse error on page N issued the GETs
\* of pages 1..N and no other, goes through its insert and update, writes
\* what it holds (the records of pages 1..N-1 first, then only records of
\* page N), and has its category done when the run has ended.
C13_AfterFail(c) ==
    outcome[c] = "ParseError" =>
        LET n == page_number[c] IN
        /\ Malformed(c, n)
        /\ fetched[c] = [i \in 1..n |-> i]
        /\ pc[c] \in {"insert", "update", "done"}
        /\ IsPrefix(PagesQuotes(c, n - 1), quotes_data[c])
        /\ \A k \in (Len(PagesQuotes(c, n - 1)) + 1)..Len(quotes_data[c]) :
              quotes_data[c][k][1] = c /\ quotes_data[c][k][2] = n
        /\ StoredBy(c) = IF pc[c] = "insert" THEN <<>> ELSE quotes_data[c]
        /\ pc[c] = "done" => status[c] = "done"
        /\ RunEnded => pc[c] = "done" /\ mainpc = "reported"

RecordsOf(c, coll) == SelectSeq(coll, LAMBDA r : r[1] = c)

\* The status every category had before the run.
StatusAtStart ==
    [c \in Cats |-> IF c \in pending_at_start THEN "pending" ELSE "done"]

\* Frame of C14: a category the run did not load has no job, no GET, and
\* its status and its documents in quotes_data are those from before the run.
C14_Frame ==
    \A c \in Cats \ Loaded :
        /\ pc[c] = "idle"
        /\ fetched[c] = <<>>
        /\ status[c] = StatusAtStart[c]
        /\ RecordsOf(c, quotes_collection) = RecordsOf(c, OldRecords(StatusAtStart))

\* C14 (as claimed): the run loads at most request_limit categories, and
\* leaves every category it did not load unchanged.
C14_AtMostLimitLoaded ==
    /\ Len(pending_categories) <= request_limit
    /\ C14_Frame

\* C14 (amended): with request_limit >= 1 the run loads at most
\* request_limit categories, with request_limit = 0 it loads every pending
\* category; it loads only categories that were pending, each once; and it
\* leaves every category it did not load unchanged.
C14_CapIsRequestLimit ==
    /\ request_limit >= 1 => Len(pending_categories) <= request_limit
    /\ (request_limit = 0 /\ mainpc # "load") => Loaded = pending_at_start
    /\ Loaded \subseteq pending_at_start
    /\ Cardinality(Loaded) = Len(pending_categories)
    /\ C14_Frame

C14_Witness ==
    /\ request_limit = 1
    /\ Cardinality(pending_at_start) = 2
    /\ mainpc = "reported"
    /\ \E c \in Loaded : status[c] = "done" /\ StoredBy(c) # <<>>
    /\ \E c \in pending_at_start \ Loaded : status[c] = "pending"
    /\ request_counter >= request_limit

\* C15, the steps of a page that answered 200, whatever number of quotes
\* it carries: the job reads the counter, writes the value read plus one,
\* and after parsing goes on to the next page number exactly when the page
\* has a next link; without one it leaves the loop.
C15_PageStep(c) ==
    /\ (pc[c] = "read" /\ pc'[c] # "read") =>
          pc'[c] = "write" /\ count_read'[c] = request_counter
    /\ (pc[c] = "write" /\ pc'[c] # "write") =>
          pc'[c] = "parse" /\ request_counter' = count_read[c] + 1
    /\ (pc[c] = "parse" /\ pc'[c] # "parse" /\ ~Malformed(c, page_number[c])) =>
          IF site[c].end = "more" \/ page_number[c] < site[c].len
          THEN pc'[c] = "check" /\ page_number'[c] = page_number[c] + 1
          ELSE pc'[c] = "insert" /\ page_number'[c] = page_number[c]

\* C15, the budget: with one worker the counter is the number of GETs that
\* answered 200, pages without quotes included, less the one whose
\* increment is still to be written.
C15_UnitPerPage ==
    max_workers = 1 =>
        request_counter =
            Fetches200 - Cardinality({c \in Cats : pc[c] \in {"read", "write"}})

\* C15: a page that answers 200 and yields no record still costs one unit
\* of the budget, and the walker advances exactly when the page has a next
\* link.
C15_EmptyPageCounts ==
    /\ []C15_UnitPerPage
    /\ [][\A c \in Cats : C15_PageStep(c)]_vars

C15_Witness ==
    \E c \in Cats :
        /\ site[c] = [len |-> 2, end |-> "last", nq |-> 0]
        /\ max_workers = 1
        /\ fetched[c] = <<1, 2>>
        /\ request_counter = 2
        /\ outcome[c] = "Exhausted"
        /\ pc[c] = "done"
        /\ quotes_data[c] = <<>>

\* C16: the pages a job passed to requests.get are 1, 2, 3, ... in this
\* order, none twice, and every page but the last one fetched answered 200,
\* parsed, and showed a next link.
C16_PagesInOrder ==
    \A c \in Cats :
        /\ fetched[c] = [i \in 1..Len(fetched[c]) |-> i]
        /\ \A i \in 1..(Len(fetched[c]) - 1) :
              /\ Response(c, i) = "200"
              /\ ~Malformed(c, i)
              /\ site[c].end = "more" \/ i < site[c].len
        /\ pc[c] \in {"check", "get"} => page_number[c] = Len(fetched[c]) + 1
        /\ pc[c] \in {"read", "write", "parse"} => page_number[c] = Len(fetched[c])

C16_Witness ==
    \E c \in Cats :
        /\ site[c].end = "err"
        /\ fetched[c] = <<1, 2>>
        /\ outcome[c] = "FetchError"
        /\ pc[c] = "done"
        /\ request_counter < request_limit

\* C17: when the main thread is at or past the summary, every loaded job has
\* ended: none is queued, in its loop, or before its insert or update; and
\* the count printed is the counter's final value.
C17_SummaryAfterAllJobs ==
    /\ mainpc \in {"summary", "reported"} =>
          /\ \A c \in Loaded : pc[c] = "done" /\ status[c] = "done"
          /\ Running = {}
    /\ reported >= 0 => mainpc = "reported" /\ reported = request_counter

C17_Witness ==
    /\ mainpc = "reported"
    /\ max_workers = 2
    /\ Cardinality(Loaded) = 2
    /\ \A c \in Loaded : fetched[c] # <<>>
    /\ reported = request_counter
    /\ reported = 2

\* C18: under fair scheduling the run finishes: the main thread reaches the
\* exit of line 44 or prints its summary, and by then every loaded job has
\* left its loop with a terminal outcome and is done.
C18_RunFinishes ==
    <>(/\ mainpc \in {"exited", "reported"}
       /\ \A c \in Loaded : pc[c] = "done" /\ outcome[c] # "none")

C18_Witness ==
    /\ mainpc = "reported"
    /\ max_workers = 2
    /\ Cardinality(Loaded) = 2
    /\ \A c \in Loaded : site[c].end = "more" /\ outcome[c] = "BudgetExhausted"
    /\ Fetches > request_limit

\* The records of s are records of category c, in page order and, within a
\* page, in quote order.
OwnInOrder(c, s) ==
    /\ \A k \in 1..Len(s) : s[k][1] = c /\ s[k][2] >= 1
    /\ \A k \in 1..(Len(s) - 1) :
          \/ s[k][2] < s[k + 1][2]
          \/ s[k][2] = s[k + 1][2] /\ s[k][3] < s[k + 1][3]

\* t lies in s as one block.
IsBlock(t, s) ==
    \E off \in 0..(Len(s) - Len(t)) : SubSeq(s, off + 1, off + Len(t)) = t

\* C19: a loaded category whose status is done belongs to a job that left
\* its loop and ended; all the records the job collected are in quotes_data,
\* as one block, and they are the job's own records in page order.  The same
\* holds already when the job stands before its update; before its insert
\* the job has written nothing.
C19_DoneHasRecords ==
    \A c \in Loaded :
        /\ OwnInOrder(c, quotes_data[c])
        /\ status[c] = "done" => pc[c] = "done"
        /\ pc[c] \in {"update", "done"} =>
              /\ outcome[c] # "none"
              /\ StoredBy(c) = quotes_data[c]
              /\ IsBlock(quotes_data[c], quotes_collection)
        /\ pc[c] \in {"queued", "check", "get", "read", "write", "parse", "insert"} =>
              StoredBy(c) = <<>>

C19_Witness ==
    \E c, d \in Loaded :
        /\ status[c] = "done"
        /\ Len(quotes_data[c]) = 2
        /\ StoredBy(c) = quotes_data[c]
        /\ pc[d] = "raised"
        /\ StoredBy(d) # <<>>
        /\ StoredBy(d) # quotes_data[d]
        /\ quotes_collection[1][1] = d

\* C20: no increment of request_counter is lost: no step lowers the counter,
\* and when the summary is printed the counter is the number of GETs that
\* answered 200.
C20_NoLostUpdate ==
    /\ [][request_counter' >= request_counter]_vars
    /\ [](mainpc = "reported" => request_counter = Fetches200)

=============================================================================
